---- MODULE Spec2Model ----
(***************************************************************************)
(* Model of the NEA electricity usage integration                          *)
(* (custom_components/nea_electricity_usage/sensor.py): the normalizer     *)
(* _process_data, the fetcher _async_update_data, the coordinator that     *)
(* caches what the fetcher returns, the setup routine and the sensors.     *)
(*                                                                         *)
(* JSON values are tagged records.  A string is a sequence of tokens: a    *)
(* token is one character ("/", a digit, "-", "x") or one whole word (a    *)
(* month name, "Unknown", ...), so that split('/'), int() and float() are  *)
(* computed on the text and not looked up.  Floats are modelled by the     *)
(* integers (the inputs carry no fractional part); float(x) is Num(n).     *)
(***************************************************************************)
EXTENDS Integers, Sequences, FiniteSets, TLC

VARIABLES
    pc,                    \* where setup and the schedule stand
    data,                  \* coordinator.data
    last_update_success,   \* coordinator.last_update_success
    fetching,              \* requests sent and not yet answered
    timer,                 \* the refresh interval timer is armed
    entities,              \* sensors handed to async_add_entities
    resp,                  \* the response the last cycle received
    upd,                   \* what _async_update_data did in the last cycle
    raw,                   \* the argument of _process_data (SpecNorm)
    out                    \* what _process_data returned (SpecNorm)

vars == <<pc, data, last_update_success, fetching, timer, entities, resp, upd,
          raw, out>>

----------------------------------------------------------------------------
(* JSON / Python values *)

Absent == [t |-> "absent"]
None == [t |-> "null"]
Num(n) == [t |-> "num", n |-> n]
Str(s) == [t |-> "str", s |-> s]
Arr(a) == [t |-> "arr", a |-> a]
Obj(f) == [t |-> "obj", f |-> f]

Unknown == Str(<<"Unknown">>)

NEPALI_MONTHS_ORDER ==
    << <<"Baisakh">>, <<"Jestha">>, <<"Ashad">>, <<"Shrawan">>, <<"Bhadra">>,
       <<"Ashwin">>, <<"Kartik">>, <<"Mangsir">>, <<"Poush">>, <<"Magh">>,
       <<"Falgun">>, <<"Chaitra">> >>

Digits == <<"0", "1", "2", "3", "4", "5", "6", "7", "8", "9">>

IsDigit(c) == \E i \in 1..Len(Digits) : Digits[i] = c

DigitVal(c) == (CHOOSE i \in 1..Len(Digits) : Digits[i] = c) - 1

RECURSIVE DigitsVal(_)
DigitsVal(s) ==
    IF s = <<>> THEN 0
    ELSE 10 * DigitsVal(SubSeq(s, 1, Len(s) - 1)) + DigitVal(s[Len(s)])

(* int(s) / float(s) of a string: an optional sign and at least one digit;
   anything else is a ValueError. *)
ParseNumber(s) ==
    LET signed == s # <<>> /\ s[1] \in {"-", "+"}
        body == IF signed THEN Tail(s) ELSE s
    IN  IF body # <<>> /\ \A i \in 1..Len(body) : IsDigit(body[i])
        THEN [exc |-> "none",
              n |-> IF signed /\ s[1] = "-" THEN 0 - DigitsVal(body)
                    ELSE DigitsVal(body)]
        ELSE [exc |-> "ValueError"]

(* float(x) *)
ToFloat(x) ==
    CASE x.t = "num" -> [exc |-> "none", n |-> x.n]
      [] x.t = "str" -> ParseNumber(x.s)
      [] OTHER -> [exc |-> "TypeError"]

(* d.get(key, default) on a JSON object *)
Get(d, key, default) == IF d.f[key] = Absent THEN default ELSE d.f[key]

(* '/' in s *)
HasSlash(s) == \E i \in 1..Len(s) : s[i] = "/"

(* s.split('/') *)
RECURSIVE Split(_)
Split(s) ==
    IF ~HasSlash(s) THEN <<s>>
    ELSE LET i == CHOOSE k \in 1..Len(s) :
                     s[k] = "/" /\ \A j \in 1..(k - 1) : s[j] # "/"
         IN  <<SubSeq(s, 1, i - 1)>> \o Split(SubSeq(s, i + 1, Len(s)))

(* NEPALI_MONTHS_ORDER.index(name), 0-based; ValueError when not in the list *)
MonthIndex(name) ==
    IF \E i \in 1..Len(NEPALI_MONTHS_ORDER) : NEPALI_MONTHS_ORDER[i] = name
    THEN [exc |-> "none",
          n |-> (CHOOSE i \in 1..Len(NEPALI_MONTHS_ORDER) :
                     NEPALI_MONTHS_ORDER[i] = name) - 1]
    ELSE [exc |-> "ValueError"]

----------------------------------------------------------------------------
(* _process_data *)

(* a loop body that never lets the rebate go below zero *)
ProcessedItemClampedRebate(item, cu, ba, pa) ==
    IF cu.exc # "none" THEN [exc |-> cu.exc]
    ELSE IF ba.exc # "none" THEN [exc |-> ba.exc]
    ELSE IF pa.exc # "none" THEN [exc |-> pa.exc]
    ELSE [exc |-> "none",
          item |-> [month |-> Get(item, "month", Unknown),
                    status |-> Get(item, "status", Unknown),
                    consumed_units |-> Num(cu.n),
                    bill_amount |-> Num(ba.n),
                    payable_amount |-> Num(pa.n),
                    rebate_amount |-> Num(IF ba.n > pa.n THEN ba.n - pa.n
                                          ELSE 0)]]

(* The dict the loop body builds from three parsed numbers *)
ProcessedItem(item, cu, ba, pa) ==
    IF cu.exc # "none" THEN [exc |-> cu.exc]
    ELSE IF ba.exc # "none" THEN [exc |-> ba.exc]
    ELSE IF pa.exc # "none" THEN [exc |-> pa.exc]
    ELSE [exc |-> "none",
          item |-> [month |-> Get(item, "month", Unknown),
                    status |-> Get(item, "status", Unknown),
                    consumed_units |-> Num(cu.n),
                    bill_amount |-> Num(ba.n),
                    payable_amount |-> Num(pa.n),
                    rebate_amount |-> Num(ba.n - pa.n)]]

(* One iteration of the loop body: the processed item, or the exception the
   body raises.  item.get on a value that is no dict is an AttributeError;
   the float() calls raise ValueError or TypeError. *)
ProcessItem(item) ==
    IF item.t # "obj" THEN [exc |-> "AttributeError"]
    ELSE ProcessedItem(item,
                       ToFloat(Get(item, "consumedUnits", Num(0))),
                       ToFloat(Get(item, "billAmt", Num(0))),
                       ToFloat(Get(item, "payableAmount", Num(0))))

(* except (ValueError, TypeError) around the loop body *)
ItemErrorCaught(exc) == exc \in {"ValueError", "TypeError"}

(* The for loop: appends each processed item, skips an item whose error is
   caught, and stops at the first error that is not. *)
RECURSIVE AppendItems(_, _)
AppendNext(r, items, acc) ==
    IF r.exc = "none" THEN AppendItems(Tail(items), Append(acc, r.item))
    ELSE IF ItemErrorCaught(r.exc) THEN AppendItems(Tail(items), acc)
    ELSE [exc |-> r.exc, list |-> acc]

AppendItems(items, acc) ==
    IF items = <<>> THEN [exc |-> "none", list |-> acc]
    ELSE AppendNext(ProcessItem(Head(items)), items, acc)

(* The key tuple from the parsed year and the month index *)
KeyTuple(year, idx) ==
    IF year.exc # "none" THEN [exc |-> year.exc]
    ELSE IF idx.exc # "none" THEN [exc |-> idx.exc]
    ELSE [exc |-> "none", key |-> <<year.n, idx.n>>]

(* The sort key lambda: (year, month index), (0, 0) without a '/'.
   '/' in x["month"] is a TypeError when the month is no string. *)
SortKey(x) ==
    IF x.month.t # "str" THEN [exc |-> "TypeError"]
    ELSE IF ~HasSlash(x.month.s) THEN [exc |-> "none", key |-> <<0, 0>>]
    ELSE KeyTuple(ParseNumber(Split(x.month.s)[2]),
                  MonthIndex(Split(x.month.s)[1]))

(* KeyLess with the tuple reversed: the month index compared before the year *)
KeyLessMonthFirst(a, b) == a[2] < b[2] \/ (a[2] = b[2] /\ a[1] < b[1])

(* Tuple order on keys *)
KeyLess(a, b) == a[1] < b[1] \/ (a[1] = b[1] /\ a[2] < b[2])

(* x goes before the elements of equal key: an unstable sort *)
RECURSIVE InsertByKeyBeforeEqual(_, _)
InsertByKeyBeforeEqual(s, x) ==
    IF s = <<>> THEN <<x>>
    ELSE IF ~KeyLess(SortKey(Head(s)).key, SortKey(x).key) THEN <<x>> \o s
    ELSE <<Head(s)>> \o InsertByKeyBeforeEqual(Tail(s), x)

(* x goes after every element whose key is not greater: the sort is stable *)
RECURSIVE InsertByKey(_, _)
InsertByKey(s, x) ==
    IF s = <<>> THEN <<x>>
    ELSE IF KeyLess(SortKey(x).key, SortKey(Head(s)).key) THEN <<x>> \o s
    ELSE <<Head(s)>> \o InsertByKey(Tail(s), x)

RECURSIVE SortedByKey(_)
SortedByKey(l) ==
    IF l = <<>> THEN <<>>
    ELSE InsertByKey(SortedByKey(SubSeq(l, 1, Len(l) - 1)), l[Len(l)])

(* list.sort(key=...): every key is computed first, and a key that raises
   makes the sort raise. *)
SortAnalytics(l) ==
    IF \E i \in 1..Len(l) : SortKey(l[i]).exc # "none"
    THEN [exc |-> SortKey(l[CHOOSE i \in 1..Len(l) :
                      /\ SortKey(l[i]).exc # "none"
                      /\ \A j \in 1..(i - 1) : SortKey(l[j]).exc = "none"]).exc]
    ELSE [exc |-> "none", list |-> SortedByKey(l)]

(* processed_data with its meter_analytics list *)
WithAnalytics(pd, list) == [pd EXCEPT !.meter_analytics = list]

(* if processed_data["meter_analytics"]: sort; return processed_data *)
SortStep(pd, sorted) ==
    IF sorted.exc # "none" THEN [exc |-> sorted.exc, processed_data |-> pd]
    ELSE [exc |-> "none", processed_data |-> WithAnalytics(pd, sorted.list)]

AfterLoop(pd, loop) ==
    IF loop.exc # "none"
    THEN [exc |-> loop.exc, processed_data |-> WithAnalytics(pd, loop.list)]
    ELSE IF loop.list = <<>> THEN [exc |-> "none", processed_data |-> pd]
    ELSE SortStep(WithAnalytics(pd, loop.list), SortAnalytics(loop.list))

(* for item in data.get("meterAnalytics", []): iterating a value that is no
   list is a TypeError (the inputs hold null there) *)
LoopStep(pd, ma) ==
    IF ma.t # "arr" THEN [exc |-> "TypeError", processed_data |-> pd]
    ELSE AfterLoop(pd, AppendItems(ma.a, <<>>))

(* The dict literal, with the two parsed totals *)
DictStep(d, tb, td) ==
    IF tb.exc # "none" THEN [exc |-> tb.exc, processed_data |-> None]
    ELSE IF td.exc # "none" THEN [exc |-> td.exc, processed_data |-> None]
    ELSE LoopStep([meter_name |-> Get(d, "meterName", Unknown),
                   consumer_id |-> Get(d, "consumerId", Unknown),
                   sc_num |-> Get(d, "scNum", Unknown),
                   total_bill_amount |-> Num(tb.n),
                   total_dues_amount |-> Num(td.n),
                   meter_analytics |-> <<>>],
                  Get(d, "meterAnalytics", Arr(<<>>)))

(* The body of the outer try: the exception it raises ("none" when it
   returns) and processed_data as it stands at that point (None before the
   dict exists).  data.get on a value that is no dict is an AttributeError. *)
ProcessDataTry(d) ==
    IF d.t # "obj" THEN [exc |-> "AttributeError", processed_data |-> None]
    ELSE DictStep(d, ToFloat(Get(d, "totalBillAmount", Num(0))),
                  ToFloat(Get(d, "totalDuesAmount", Num(0))))

(* an except clause that returns the dict as far as it was built *)
ProcessDataExceptPartial(r) == r.processed_data

(* except Exception: log and return None *)
ProcessDataExcept(r) == None

ProcessDataReturn(r) ==
    IF r.exc = "none" THEN r.processed_data ELSE ProcessDataExcept(r)

_process_data(d) == ProcessDataReturn(ProcessDataTry(d))

----------------------------------------------------------------------------
(* _async_update_data *)

(* bool(v) *)
Truthy(v) ==
    CASE v.t = "num" -> v.n # 0
      [] v.t = "str" -> v.s # <<>>
      [] v.t = "arr" -> v.a # <<>>
      [] v.t = "obj" -> \E k \in DOMAIN v.f : v.f[k] # Absent
      [] OTHER -> FALSE

(* truthiness of what _process_data returns: None, or a dict of six keys *)
DataTruthy(d) == d # None

(* any 2xx status taken for success *)
StatusIsSuccess(status) == status \in 200..299

(* response.status == 200 *)
StatusIsOk(status) == status = 200

(* except aiohttp.ClientError: the aiohttp exception classes among those the
   responses raise *)
IsClientError(exc) == exc \in {"ClientConnectionError", "ContentTypeError"}

(* a last except clause that names the timeout only *)
IsCaughtTimeoutOnly(exc) == exc = "TimeoutError"

(* except Exception, after except aiohttp.ClientError *)
IsCaught(exc) == TRUE

(* The body of the try: the exception it raises ("none" when it returns),
   the value it returns, the error _async_update_data logs and whether
   _process_data ran. *)
UpdateDataTry(r) ==
    IF r.kind = "exc"
    THEN [exc |-> r.exc, ret |-> None, log |-> "none", normalized |-> FALSE]
    ELSE IF StatusIsOk(r.status)
    THEN IF r.body.t = "raise"
         THEN [exc |-> r.body.exc, ret |-> None, log |-> "none",
               normalized |-> FALSE]
         ELSE IF r.body.t # "obj"
         THEN [exc |-> "AttributeError", ret |-> None, log |-> "none",
               normalized |-> FALSE]
         ELSE IF ~Truthy(Get(r.body, "data", None))
         THEN [exc |-> "none", ret |-> None,
               log |-> "No data received from API", normalized |-> FALSE]
         ELSE [exc |-> "none", ret |-> _process_data(r.body.f.data),
               log |-> "none", normalized |-> TRUE]
    ELSE IF r.status = 401
    THEN [exc |-> "none", ret |-> None, log |-> "Authentication failed",
          normalized |-> FALSE]
    ELSE [exc |-> "none", ret |-> None, log |-> "Failed to fetch data",
          normalized |-> FALSE]

(* The except clauses: exc is "none" when the coroutine returns, and the
   exception that leaves it otherwise *)
UpdateDataExcept(u) ==
    IF u.exc = "none" THEN u
    ELSE IF IsClientError(u.exc)
    THEN [exc |-> "none", ret |-> None, log |-> "Error fetching data",
          normalized |-> FALSE]
    ELSE IF IsCaught(u.exc)
    THEN [exc |-> "none", ret |-> None, log |-> "Unexpected error",
          normalized |-> FALSE]
    ELSE [exc |-> u.exc, ret |-> None, log |-> "none", normalized |-> FALSE]

_async_update_data(r) == UpdateDataExcept(UpdateDataTry(r))

----------------------------------------------------------------------------
(* The coordinator, as ElectricityUsageCoordinator inherits it from
   DataUpdateCoordinator: a refresh stores whatever _async_update_data
   returns as coordinator.data and marks the update successful; only an
   exception leaving _async_update_data keeps the old data and marks the
   update failed. *)

(* a refresh that appends the new entries to the ones already cached *)
CoordinatorDataAccumulating(u, old) ==
    IF u.exc # "none" THEN old
    ELSE IF u.ret # None /\ old # None
    THEN [u.ret EXCEPT !.meter_analytics = old.meter_analytics \o @]
    ELSE u.ret

CoordinatorData(u, old) == IF u.exc = "none" THEN u.ret ELSE old

CoordinatorSuccess(u) == u.exc = "none"

(* native_value of the sensors *)
(* a sensor that reads zero when nothing is cached *)
FieldNativeValueZero(d, field) == IF DataTruthy(d) THEN d[field] ELSE Num(0)

FieldNativeValue(d, field) == IF DataTruthy(d) THEN d[field] ELSE None

TotalBillNativeValue(d) == FieldNativeValue(d, "total_bill_amount")
TotalDuesNativeValue(d) == FieldNativeValue(d, "total_dues_amount")
MeterNameNativeValue(d) == FieldNativeValue(d, "meter_name")
ConsumerIDNativeValue(d) == FieldNativeValue(d, "consumer_id")
ScNumNativeValue(d) == FieldNativeValue(d, "sc_num")

MonthlyDataNativeValue(d) ==
    IF DataTruthy(d) /\ d.meter_analytics # <<>>
    THEN d.meter_analytics[1].consumed_units
    ELSE None

----------------------------------------------------------------------------
(* Inputs *)

MaxItems == 3
MaxPollItems == 2

SeqsUpTo(S, n) == UNION {[1..k -> S] : k \in 0..n}

Month(name, y1, y2) == Str(<<name, "/", y1, y2>>)

Item(month, status, cu, bill, pay) ==
    Obj([month |-> month, status |-> status, consumedUnits |-> cu,
         billAmt |-> bill, payableAmount |-> pay])

Paid == Str(<<"PAID">>)

ItemChaitra80 == Item(Month("Chaitra", "8", "0"), Paid, Num(1), Num(5), Num(3))
ItemBaisakh81 == Item(Month("Baisakh", "8", "1"), Paid, Num(2), Num(5), Num(3))
ItemPoush80 ==
    Item(Month("Poush", "8", "0"), Absent, Str(<<"-", "3">>), Num(3), Num(5))
ItemNoSlash == Item(Str(<<"Baisakh">>), Paid, Num(4), Num(5), Num(3))
ItemEmpty == Item(Absent, Absent, Absent, Absent, Absent)
ItemBadUnits ==
    Item(Month("Baisakh", "8", "1"), Paid, Str(<<"x">>), Num(5), Num(3))
ItemBadBill == Item(Month("Poush", "8", "0"), Paid, Num(6), None, Num(3))
ItemBadPayable ==
    Item(Month("Chaitra", "8", "0"), Paid, Num(7), Num(5), Str(<<"x">>))
ItemBadName == Item(Month("Foo", "8", "1"), Paid, Num(8), Num(5), Num(3))
ItemBadYear == Item(Month("Baisakh", "x", "x"), Paid, Num(9), Num(5), Num(3))
ItemNullMonth == Item(None, Paid, Num(10), Num(5), Num(3))
ItemNotDict == Str(<<"x">>)
ItemBaisakh81Late ==
    Item(Month("Baisakh", "8", "1"), Str(<<"DUE">>), Num(11), Num(9), Num(9))

Items ==
    {ItemChaitra80, ItemBaisakh81, ItemPoush80, ItemNoSlash, ItemEmpty,
     ItemBadUnits, ItemBadBill, ItemBadPayable, ItemBadName, ItemBadYear,
     ItemNullMonth, ItemNotDict, ItemBaisakh81Late}

PollItems ==
    {ItemChaitra80, ItemBaisakh81, ItemPoush80, ItemBadUnits, ItemBadName,
     ItemNotDict}

Payload(name, cid, sc, bill, dues, ma) ==
    Obj([meterName |-> name, consumerId |-> cid, scNum |-> sc,
         totalBillAmount |-> bill, totalDuesAmount |-> dues,
         meterAnalytics |-> ma])

Name1 == Str(<<"M1">>)
Cid1 == Str(<<"C1">>)
Sc1 == Str(<<"S1">>)

BasePayload(ma) == Payload(Name1, Cid1, Sc1, Num(7), Num(2), ma)

RawAmounts ==
    {Num(7), Num(0 - 4), Absent, None, Str(<<"x">>), Str(<<"1", "2">>)}

(* every list of up to MaxItems items under the usual top-level fields, and
   every combination of top-level fields over the short lists *)
NormPayloads ==
    {BasePayload(Arr(l)) : l \in SeqsUpTo(Items, MaxItems)}
    \cup {BasePayload(ma) : ma \in {Absent, None}}
    \cup {Payload(n, c, sc, b, d, Arr(l)) :
            n \in {Name1, Absent, None}, c \in {Cid1, Absent},
            sc \in {Sc1, Absent}, b \in RawAmounts,
            d \in {Num(2), Absent, Str(<<"x">>)},
            l \in {<<>>, <<ItemBaisakh81>>, <<ItemBadUnits>>}}

PollPayloads ==
    {BasePayload(Arr(l)) : l \in SeqsUpTo(PollItems, MaxPollItems)}
    \cup {BasePayload(ma) : ma \in {Absent, None}}
    \cup {Payload(Absent, Absent, Absent, b, Absent, Arr(<<ItemBaisakh81>>)) :
            b \in RawAmounts}
    \cup {Payload(None, Cid1, Sc1, Num(7), Num(2), Arr(<<ItemBaisakh81>>))}

Http(status, body) == [kind |-> "http", status |-> status, body |-> body]
Body(d) == Obj([data |-> d])
BodyRaises(exc) == [t |-> "raise", exc |-> exc]

GoodBody == Body(BasePayload(Arr(<<ItemBaisakh81>>)))

Responses ==
    {[kind |-> "exc", exc |-> e] : e \in {"ClientConnectionError", "TimeoutError"}}
    \cup {Http(st, GoodBody) : st \in {201, 401, 404, 500}}
    \cup {Http(200, BodyRaises(e)) : e \in {"ContentTypeError", "JSONDecodeError"}}
    \cup {Http(200, Arr(<<>>))}
    \cup {Http(200, Body(d)) :
            d \in {Absent, None, Num(0), Str(<<"x">>), Arr(<<Num(1)>>),
                   Payload(Absent, Absent, Absent, Absent, Absent, Absent)}}
    \cup {Http(200, Body(d)) : d \in PollPayloads}

NoResponse == [kind |-> "none"]
NoResult == [exc |-> "none", ret |-> None, log |-> "none", normalized |-> FALSE]

Pending == [t |-> "pending"]

----------------------------------------------------------------------------
(* Setup and the poll cycles *)

Init ==
    /\ pc = "init"
    /\ data = None
    /\ last_update_success = TRUE
    /\ fetching = 0
    /\ timer = FALSE
    /\ entities = 0
    /\ resp = NoResponse
    /\ upd = NoResult
    /\ raw = Absent
    /\ out = Pending

(* One refresh of the coordinator on response r *)
Refresh(r) ==
    /\ resp' = r
    /\ upd' = _async_update_data(r)
    /\ data' = CoordinatorData(upd', data)
    /\ last_update_success' = CoordinatorSuccess(upd')
    /\ fetching' = fetching - 1

(* async_setup_entry up to the await of the first refresh: the request of
   the first poll is sent *)
SetupStart ==
    /\ pc = "init"
    /\ pc' = "first_refresh"
    /\ fetching' = fetching + 1
    /\ UNCHANGED <<data, last_update_success, timer, entities, resp, upd,
                   raw, out>>

(* the six sensors built whatever the first refresh left *)
EntitiesAlways(d) == 6

(* Number of sensors async_setup_entry builds *)
EntitiesFor(d) == IF DataTruthy(d) THEN 6 ELSE 0

(* The response of the first poll arrives and async_setup_entry runs to its
   end: the first refresh raises when the update did not succeed and setup
   re-raises; otherwise the sensors are built from coordinator.data and
   handed to async_add_entities with update_before_add. *)
SetupFinish ==
    /\ pc = "first_refresh"
    /\ \E r \in Responses : Refresh(r)
    /\ IF ~last_update_success'
       THEN pc' = "setup_error" /\ entities' = 0
       ELSE /\ entities' = EntitiesFor(data')
            /\ pc' = IF EntitiesFor(data') > 0 THEN "adding" ELSE "ready"
    /\ UNCHANGED <<timer, raw, out>>

(* update_before_add: the sensors being added request a refresh of the
   coordinator; the request of that poll is sent *)
AddStart ==
    /\ pc = "adding"
    /\ pc' = "add_refresh"
    /\ fetching' = fetching + 1
    /\ UNCHANGED <<data, last_update_success, timer, entities, resp, upd,
                   raw, out>>

(* its response arrives; the sensors are listeners now, so the interval
   timer is armed *)
AddFinish ==
    /\ pc = "add_refresh"
    /\ \E r \in Responses : Refresh(r)
    /\ pc' = "ready"
    /\ timer' = TRUE
    /\ UNCHANGED <<entities, raw, out>>

(* The interval timer fires: it is disarmed and the request is sent *)
TickStart ==
    /\ pc = "ready"
    /\ timer
    /\ pc' = "tick"
    /\ timer' = FALSE
    /\ fetching' = fetching + 1
    /\ UNCHANGED <<data, last_update_success, entities, resp, upd, raw, out>>

(* The response of a scheduled poll arrives; the timer is armed again *)
TickFinish ==
    /\ pc = "tick"
    /\ \E r \in Responses : Refresh(r)
    /\ pc' = "ready"
    /\ timer' = TRUE
    /\ UNCHANGED <<entities, raw, out>>

Next ==
    \/ SetupStart
    \/ SetupFinish
    \/ AddStart
    \/ AddFinish
    \/ TickStart
    \/ TickFinish

Spec == Init /\ [][Next]_vars

----------------------------------------------------------------------------
(* _process_data alone, on every payload of NormPayloads *)

InitNorm ==
    /\ pc = "normalize"
    /\ data = None
    /\ last_update_success = TRUE
    /\ fetching = 0
    /\ timer = FALSE
    /\ entities = 0
    /\ resp = NoResponse
    /\ upd = NoResult
    /\ raw \in NormPayloads
    /\ out = Pending

Normalize ==
    /\ pc = "normalize"
    /\ pc' = "normalized"
    /\ out' = _process_data(raw)
    /\ UNCHANGED <<data, last_update_success, fetching, timer, entities, resp,
                   upd, raw>>

NextNorm == Normalize

SpecNorm == InitNorm /\ [][NextNorm]_vars

----------------------------------------------------------------------------
(* Vocabulary of the properties *)

RecordFields ==
    {"meter_name", "consumer_id", "sc_num", "total_bill_amount",
     "total_dues_amount", "meter_analytics"}

EntryFields ==
    {"month", "status", "consumed_units", "bill_amount", "payable_amount",
     "rebate_amount"}

Calendar ==
    <<"Baisakh", "Jestha", "Ashad", "Shrawan", "Bhadra", "Ashwin", "Kartik",
      "Mangsir", "Poush", "Magh", "Falgun", "Chaitra">>

(* "<month name>/<two-digit year>" *)
WellFormedMonth(m) ==
    /\ m.t = "str"
    /\ Len(m.s) = 4
    /\ \E i \in 1..Len(Calendar) : Calendar[i] = m.s[1]
    /\ m.s[2] = "/"
    /\ IsDigit(m.s[3]) /\ IsDigit(m.s[4])

(* (year, index of the month name) of a well-formed month *)
CalendarKey(m) ==
    <<10 * DigitVal(m.s[3]) + DigitVal(m.s[4]),
      (CHOOSE i \in 1..Len(Calendar) : Calendar[i] = m.s[1]) - 1>>

KeyBefore(a, b) == a[1] < b[1] \/ (a[1] = b[1] /\ a[2] < b[2])

(* a month string with no '/' (an absent month reads "Unknown") *)
NoSeparatorMonth(m) ==
    m = Absent \/ (m.t = "str" /\ \A i \in 1..Len(m.s) : m.s[i] # "/")

(* a raw number that float() accepts; an absent one reads 0 *)
Parsable(x) ==
    \/ x = Absent
    \/ x.t = "num"
    \/ x.t = "str" /\ ParseNumber(x.s).exc = "none"

(* a raw monthly entry whose three numeric fields parse *)
NumbersParse(item) ==
    /\ item.t = "obj"
    /\ Parsable(item.f.consumedUnits)
    /\ Parsable(item.f.billAmt)
    /\ Parsable(item.f.payableAmount)

IsDictList(ma) ==
    ma.t = "arr" /\ \A i \in 1..Len(ma.a) : ma.a[i].t = "obj"

TotalsParse(d) ==
    Parsable(d.f.totalBillAmount) /\ Parsable(d.f.totalDuesAmount)

Occurrences(seq, x) == Cardinality({i \in 1..Len(seq) : seq[i] = x})

IsRecord(d) == d # None /\ d # Pending /\ DOMAIN d = RecordFields

Months(entries) == [i \in 1..Len(entries) |-> entries[i].month]

RawMonths(l) == [i \in 1..Len(l) |-> Get(l[i], "month", Unknown)]

(* every parsable raw entry is in the output exactly as often as in the
   input, and nothing else is *)
SameEntries(entries, l) ==
    /\ Len(entries) = Cardinality({i \in 1..Len(l) : NumbersParse(l[i])})
    /\ \A i \in 1..Len(l) :
        NumbersParse(l[i]) =>
            Cardinality({k \in 1..Len(entries) :
                /\ entries[k].month = Get(l[i], "month", Unknown)
                /\ entries[k].consumed_units
                       = Num(ToFloat(Get(l[i], "consumedUnits", Num(0))).n)})
            = Cardinality({j \in 1..Len(l) :
                /\ NumbersParse(l[j])
                /\ Get(l[j], "month", Unknown) = Get(l[i], "month", Unknown)
                /\ ToFloat(Get(l[j], "consumedUnits", Num(0))).n
                       = ToFloat(Get(l[i], "consumedUnits", Num(0))).n})

Normalized == pc = "normalized"

RawList == raw.f.meterAnalytics

(* every month of the raw list is a string, or absent *)
MonthsAreStrings(l) ==
    \A i \in 1..Len(l) : l[i].f.month = Absent \/ l[i].f.month.t = "str"

(* every month of the raw list is well formed or has no separator *)
MonthsSortable(l) ==
    \A i \in 1..Len(l) :
        WellFormedMonth(l[i].f.month) \/ NoSeparatorMonth(l[i].f.month)

Ascending(entries) ==
    \A i, j \in 1..Len(entries) :
        i < j => ~KeyBefore(CalendarKey(entries[j].month),
                            CalendarKey(entries[i].month))

----------------------------------------------------------------------------
(* Properties of _process_data (SpecNorm) *)

(* C5: for every raw list of monthly entries, the entries with a numeric
   field that does not parse are absent from meter_analytics, every other
   entry is present exactly once, and a record is returned. *)
C5_UnparsableDroppedOthersKept ==
    (/\ Normalized
     /\ TotalsParse(raw)
     /\ IsDictList(RawList)
     /\ MonthsAreStrings(RawList.a))
    => /\ IsRecord(out)
       /\ SameEntries(out.meter_analytics, RawList.a)

(* C6: an entry whose month string is malformed in any way is tolerated: a
   record is returned, the entry is kept, and it comes before every
   well-formed entry. *)
C6_MalformedMonthTolerated ==
    (/\ Normalized
     /\ TotalsParse(raw)
     /\ IsDictList(RawList)
     /\ MonthsAreStrings(RawList.a))
    => /\ IsRecord(out)
       /\ \A i \in 1..Len(RawList.a) :
            (NumbersParse(RawList.a[i])
             /\ ~WellFormedMonth(Get(RawList.a[i], "month", Unknown)))
            => \E k \in 1..Len(out.meter_analytics) :
                 out.meter_analytics[k].month
                     = Get(RawList.a[i], "month", Unknown)
       /\ \A k, m \in 1..Len(out.meter_analytics) :
            (~WellFormedMonth(out.meter_analytics[k].month)
             /\ WellFormedMonth(out.meter_analytics[m].month)) => k < m

(* C7: when every month of the raw list is well formed, meter_analytics is a
   permutation of the kept entries in ascending order of (year, index of the
   month name); Chaitra/80, Baisakh/81, Poush/80 comes out as Poush/80,
   Chaitra/80, Baisakh/81. *)
C7_WellFormedSortedByYearMonth ==
    (/\ Normalized
     /\ IsRecord(out)
     /\ IsDictList(RawList)
     /\ \A i \in 1..Len(RawList.a) : WellFormedMonth(RawList.a[i].f.month))
    => /\ SameEntries(out.meter_analytics, RawList.a)
       /\ Ascending(out.meter_analytics)
       /\ (RawMonths(RawList.a)
               = <<Month("Chaitra", "8", "0"), Month("Baisakh", "8", "1"),
                   Month("Poush", "8", "0")>>
           /\ \A i \in 1..3 : NumbersParse(RawList.a[i]))
          => Months(out.meter_analytics)
               = <<Month("Poush", "8", "0"), Month("Chaitra", "8", "0"),
                   Month("Baisakh", "8", "1")>>

C7_Witness ==
    /\ Normalized
    /\ raw = BasePayload(Arr(<<ItemChaitra80, ItemBaisakh81, ItemPoush80>>))
    /\ IsRecord(out)
    /\ Months(out.meter_analytics)
           = <<Month("Poush", "8", "0"), Month("Chaitra", "8", "0"),
               Month("Baisakh", "8", "1")>>

(* C8: a top-level field that is absent or does not parse is replaced by its
   default and a record is returned: 0 for totalBillAmount and
   totalDuesAmount that are missing, null or unparsable, "Unknown" for a
   missing meterName, consumerId or scNum. *)
C8_TopLevelDefaults ==
    (/\ Normalized
     /\ IsDictList(RawList)
     /\ MonthsSortable(RawList.a))
    => /\ IsRecord(out)
       /\ (raw.f.totalBillAmount.t \notin {"num", "str"}
           \/ ~Parsable(raw.f.totalBillAmount))
          => out.total_bill_amount = Num(0)
       /\ (raw.f.totalDuesAmount.t \notin {"num", "str"}
           \/ ~Parsable(raw.f.totalDuesAmount))
          => out.total_dues_amount = Num(0)
       /\ raw.f.meterName = Absent => out.meter_name = Unknown
       /\ raw.f.consumerId = Absent => out.consumer_id = Unknown
       /\ raw.f.scNum = Absent => out.sc_num = Unknown

----------------------------------------------------------------------------
(* Properties of the coordinator, the fetcher and setup (Spec) *)

(* a poll cycle ends in this step *)
CycleEnds == fetching' < fetching

(* the first poll is the only one that has ended *)
FirstPollOnly == pc \in {"adding", "ready", "setup_error"} /\ ~timer

(* the payload of the last response, when it carried one *)
RespPayload == resp.body.f.data

CarriesPayload ==
    /\ resp.kind = "http"
    /\ resp.status = 200
    /\ resp.body.t = "obj"
    /\ resp.body.f.data.t = "obj"

(* null, absent or otherwise falsy *)
Falsy(d) ==
    \/ d \in {Absent, None, Num(0), Str(<<>>), Arr(<<>>)}
    \/ d.t = "obj" /\ \A k \in DOMAIN d.f : d.f[k] = Absent

(* (year, month index) of a cached month, (0, 0) without a separator *)
EntryKey(m) == IF WellFormedMonth(m) THEN CalendarKey(m) ELSE <<0, 0>>

CompleteRecord(d) ==
    /\ DOMAIN d = RecordFields
    /\ \A i \in 1..Len(d.meter_analytics) :
        /\ DOMAIN d.meter_analytics[i] = EntryFields
        /\ \/ WellFormedMonth(d.meter_analytics[i].month)
           \/ NoSeparatorMonth(d.meter_analytics[i].month)
    /\ \A i, j \in 1..Len(d.meter_analytics) :
        i < j => ~KeyBefore(EntryKey(d.meter_analytics[j].month),
                            EntryKey(d.meter_analytics[i].month))

(* C1: once a record is cached, a poll cycle that fails leaves the cached
   record as it was, and the sensors keep reporting its values. *)
C1_FailedPollKeepsRecord ==
    [][(CycleEnds /\ IsRecord(data) /\ upd'.ret = None)
       => /\ data' = data
          /\ TotalBillNativeValue(data') = TotalBillNativeValue(data)
          /\ TotalDuesNativeValue(data') = TotalDuesNativeValue(data)
          /\ MeterNameNativeValue(data') = MeterNameNativeValue(data)
          /\ ConsumerIDNativeValue(data') = ConsumerIDNativeValue(data)
          /\ ScNumNativeValue(data') = ScNumNativeValue(data)
          /\ MonthlyDataNativeValue(data') = MonthlyDataNativeValue(data)]_vars

(* C2: when the first poll, made during setup, fails, the failure is raised
   out of async_setup_entry and setup does not complete. *)
C2_FirstPollFailureRaises ==
    (FirstPollOnly /\ ~IsRecord(upd.ret)) => pc = "setup_error"

(* C3: no poll cycle lets an exception out: whatever the response or the
   fault, _async_update_data returns a record or None. *)
C3_NoPollRaises ==
    /\ upd.exc = "none"
    /\ upd.ret = None \/ IsRecord(upd.ret)

C3_Witness ==
    /\ pc = "ready"
    /\ timer
    /\ resp = [kind |-> "exc", exc |-> "TimeoutError"]
    /\ upd.exc = "none"
    /\ upd.ret = None

(* C4: the cached value is None or a complete record: all six fields, every
   entry with all six entry fields, the entries in sort order and as many
   as the payload has entries whose numbers parse. *)
C4_CachedRecordComplete ==
    data = None
    \/ /\ CompleteRecord(data)
       /\ CarriesPayload
       /\ RespPayload.f.meterAnalytics.t = "arr"
          => Len(data.meter_analytics)
               = Cardinality({i \in 1..Len(RespPayload.f.meterAnalytics.a) :
                     NumbersParse(RespPayload.f.meterAnalytics.a[i])})
       /\ RespPayload.f.meterAnalytics.t # "arr" => data.meter_analytics = <<>>

C4_Witness ==
    /\ resp = Http(200, Body(BasePayload(Arr(<<ItemBaisakh81, ItemChaitra80>>))))
    /\ IsRecord(data)
    /\ Months(data.meter_analytics)
           = <<Month("Chaitra", "8", "0"), Month("Baisakh", "8", "1")>>

(* C9: a record is returned only for status 200 with a truthy data field;
   200 with a falsy data field logs the missing data, 401 the failed
   authentication, any other status the failed fetch, a connection error or
   a timeout is caught by an except clause; none of these runs
   _process_data or returns anything but None. *)
C9_OutcomeClasses ==
    resp.kind # "none" =>
    /\ (IsRecord(upd.ret) \/ upd.normalized)
       => /\ resp.kind = "http"
          /\ resp.status = 200
          /\ resp.body.t = "obj"
          /\ ~Falsy(resp.body.f.data)
          /\ upd.normalized
    /\ (resp.kind = "http" /\ resp.status = 200 /\ resp.body.t = "obj"
        /\ Falsy(resp.body.f.data))
       => upd = [exc |-> "none", ret |-> None,
                 log |-> "No data received from API", normalized |-> FALSE]
    /\ (resp.kind = "http" /\ resp.status = 401)
       => upd = [exc |-> "none", ret |-> None,
                 log |-> "Authentication failed", normalized |-> FALSE]
    /\ (resp.kind = "http" /\ resp.status \notin {200, 401})
       => upd = [exc |-> "none", ret |-> None,
                 log |-> "Failed to fetch data", normalized |-> FALSE]
    /\ resp.kind = "exc"
       => /\ upd.exc = "none" /\ upd.ret = None /\ ~upd.normalized
          /\ upd.log \in {"Error fetching data", "Unexpected error"}

C9_Witness ==
    /\ resp = Http(200, Body(Payload(Absent, Absent, Absent, Absent, Absent,
                                     Absent)))
    /\ upd.log = "No data received from API"
    /\ upd.ret = None

----------------------------------------------------------------------------
(* Further properties of the coordinator and the sensors (Spec) *)

(* a poll cycle has ended *)
Polled == resp.kind # "none"

(* C11: normalization is deterministic and independent of history: the
   record a poll yields and caches is the normalization of its payload
   alone, and a poll that receives the payload of the poll before it leaves
   an equal record. *)
C11_RecordDependsOnPayloadOnly ==
    /\ [](upd.normalized
          => upd.ret = _process_data(RespPayload) /\ data = upd.ret)
    /\ [][(CycleEnds /\ upd.normalized /\ resp' = resp)
          => (upd'.ret = upd.ret /\ data' = data)]_vars

C11_Witness ==
    /\ pc = "ready"
    /\ timer
    /\ resp = Http(200, Body(BasePayload(Arr(<<ItemBaisakh81, ItemPoush80>>))))
    /\ IsRecord(data)
    /\ Months(data.meter_analytics)
           = <<Month("Poush", "8", "0"), Month("Baisakh", "8", "1")>>

(* C12: in every cached record total_bill_amount is non-negative and every
   entry has non-negative consumed_units, bill_amount and payable_amount. *)
C12_CachedAmountsNonNegative ==
    IsRecord(data) =>
        /\ data.total_bill_amount.n >= 0
        /\ \A i \in 1..Len(data.meter_analytics) :
            /\ data.meter_analytics[i].consumed_units.n >= 0
            /\ data.meter_analytics[i].bill_amount.n >= 0
            /\ data.meter_analytics[i].payable_amount.n >= 0

(* C13: with a non-empty meter_analytics cached, the monthly-data sensor
   reports the consumed units of the most recent month: of an entry whose
   (year, month index) no other cached entry exceeds. *)
C13_MonthlySensorMostRecent ==
    (IsRecord(data) /\ data.meter_analytics # <<>>) =>
        \E i \in 1..Len(data.meter_analytics) :
            /\ MonthlyDataNativeValue(data)
                   = data.meter_analytics[i].consumed_units
            /\ \A j \in 1..Len(data.meter_analytics) :
                 ~KeyBefore(EntryKey(data.meter_analytics[i].month),
                            EntryKey(data.meter_analytics[j].month))

(* C15: after a poll cycle in which the fetch failed the coordinator's
   last_update_success is false, and after a cycle that produced a record it
   is true. *)
C15_FailureRecorded ==
    Polled => (last_update_success <=> IsRecord(upd.ret))

(* C17: sensors are registered only by async_setup_entry and only when the
   first refresh left a record: a first poll without a record leaves zero
   entities, and no later step changes the number of entities. *)
C17_EntitiesOnlyAtSetup ==
    /\ []((FirstPollOnly /\ ~IsRecord(upd.ret)) => entities = 0)
    /\ [][entities' # entities
          => (pc = "first_refresh" /\ IsRecord(data') /\ entities' = 6)]_vars

C17_Witness ==
    /\ pc = "ready"
    /\ ~timer
    /\ Polled
    /\ data = None
    /\ entities = 0

(* the sensors report the fields of the record cached now, and null without
   a record (the monthly sensor also with an empty meter_analytics) *)
SensorsReportCachedRecord ==
    IF IsRecord(data)
    THEN /\ TotalBillNativeValue(data) = data.total_bill_amount
         /\ TotalDuesNativeValue(data) = data.total_dues_amount
         /\ MeterNameNativeValue(data) = data.meter_name
         /\ ConsumerIDNativeValue(data) = data.consumer_id
         /\ ScNumNativeValue(data) = data.sc_num
         /\ MonthlyDataNativeValue(data)
                = IF data.meter_analytics = <<>> THEN None
                  ELSE data.meter_analytics[1].consumed_units
    ELSE /\ TotalBillNativeValue(data) = None
         /\ TotalDuesNativeValue(data) = None
         /\ MeterNameNativeValue(data) = None
         /\ ConsumerIDNativeValue(data) = None
         /\ ScNumNativeValue(data) = None
         /\ MonthlyDataNativeValue(data) = None

(* C18 as stated: each sensor reports null exactly when the cached record is
   absent (the monthly sensor: or has an empty meter_analytics) and the field
   of the cached record otherwise. *)
C18_NullExactlyWhenAbsent ==
    entities = 6 =>
        /\ SensorsReportCachedRecord
        /\ TotalBillNativeValue(data) = None <=> ~IsRecord(data)
        /\ TotalDuesNativeValue(data) = None <=> ~IsRecord(data)
        /\ MeterNameNativeValue(data) = None <=> ~IsRecord(data)
        /\ ConsumerIDNativeValue(data) = None <=> ~IsRecord(data)
        /\ ScNumNativeValue(data) = None <=> ~IsRecord(data)
        /\ MonthlyDataNativeValue(data) = None
               <=> (~IsRecord(data) \/ data.meter_analytics = <<>>)

(* C18, amended: each sensor reports null when the cached record is absent
   (the monthly sensor also when meter_analytics is empty) and otherwise the
   field of the record cached now, which is null itself when the response
   carried null there. *)
C18_SensorsFollowCachedRecord ==
    entities = 6 => SensorsReportCachedRecord

C18_Witness ==
    /\ pc = "ready"
    /\ timer
    /\ entities = 6
    /\ data = None
    /\ MeterNameNativeValue(data) = None
    /\ MonthlyDataNativeValue(data) = None

----------------------------------------------------------------------------
(* Further properties of _process_data (SpecNorm) *)

(* C14: for a response whose totals are numbers, total_bill_amount and
   total_dues_amount equal totalBillAmount and totalDuesAmount, and every
   kept entry has rebate_amount = bill_amount - payable_amount, negative
   results included. *)
C14_TotalsExactRebateUnclamped ==
    (Normalized /\ IsRecord(out)) =>
        /\ raw.f.totalBillAmount.t = "num"
               => out.total_bill_amount = Num(raw.f.totalBillAmount.n)
        /\ raw.f.totalDuesAmount.t = "num"
               => out.total_dues_amount = Num(raw.f.totalDuesAmount.n)
        /\ \A i \in 1..Len(out.meter_analytics) :
             out.meter_analytics[i].rebate_amount.n
                 = out.meter_analytics[i].bill_amount.n
                       - out.meter_analytics[i].payable_amount.n

C14_Witness ==
    /\ Normalized
    /\ raw = BasePayload(Arr(<<ItemPoush80>>))
    /\ IsRecord(out)
    /\ out.total_bill_amount = Num(7)
    /\ out.total_dues_amount = Num(2)
    /\ out.meter_analytics[1].rebate_amount = Num(0 - 2)

(* (month, consumed units) of a cached entry and of a raw entry *)
EntryTag(e) == <<e.month, e.consumed_units>>

RawTag(item) ==
    <<Get(item, "month", Unknown),
      Num(ToFloat(Get(item, "consumedUnits", Num(0))).n)>>

(* the tags of the entries of a cached list *)
OutTags(entries) == [i \in 1..Len(entries) |-> EntryTag(entries[i])]

(* the tags of the raw entries that are kept, in input order *)
RECURSIVE KeptTags(_)
KeptTags(l) ==
    IF l = <<>> THEN <<>>
    ELSE IF NumbersParse(Head(l)) THEN <<RawTag(Head(l))>> \o KeptTags(Tail(l))
    ELSE KeptTags(Tail(l))

(* the tags whose month has sort key k, in order *)
RECURSIVE TagsWithKey(_, _)
TagsWithKey(tags, k) ==
    IF tags = <<>> THEN <<>>
    ELSE IF EntryKey(Head(tags)[1]) = k
    THEN <<Head(tags)>> \o TagsWithKey(Tail(tags), k)
    ELSE TagsWithKey(Tail(tags), k)

(* C16: months without '/' sort as key (0, 0), before every entry with
   year > 0, and entries of equal sort key keep the relative order they had
   in the input list. *)
C16_StableSeparatorLessFirst ==
    (Normalized /\ IsRecord(out) /\ IsDictList(RawList)) =>
        /\ \A k, m \in 1..Len(out.meter_analytics) :
             (/\ NoSeparatorMonth(out.meter_analytics[k].month)
              /\ WellFormedMonth(out.meter_analytics[m].month)
              /\ CalendarKey(out.meter_analytics[m].month)[1] > 0) => k < m
        /\ \A k \in 1..Len(out.meter_analytics) :
             TagsWithKey(OutTags(out.meter_analytics),
                         EntryKey(out.meter_analytics[k].month))
                 = TagsWithKey(KeptTags(RawList.a),
                               EntryKey(out.meter_analytics[k].month))

C16_Witness ==
    /\ Normalized
    /\ raw = BasePayload(Arr(<<ItemNoSlash, ItemBaisakh81Late, ItemEmpty>>))
    /\ IsRecord(out)
    /\ Months(out.meter_analytics)
           = <<Str(<<"Baisakh">>), Unknown, Month("Baisakh", "8", "1")>>

====
